---- MODULE Spec2Model ----
\* Model of the nar client core (client/nar/base.py) together with the
\* ModelProject entity of client/nar/brainsimulation.py: the KGObject
\* exists/save protocol, the identity cache (KGObject.cache and the
\* cache decorator), KGProxy.resolve and KGQuery.resolve, run against an
\* abstract knowledge-graph store.
EXTENDS Integers, Sequences, FiniteSets, TLC

\* ---------------------------------------------------------------- bounds
MaxIds == 2       \* identifiers the store can hand out
MaxObjs == 2      \* in-memory KGObject instances
MaxRev == 2       \* revisions of one resource
MaxLen == 2       \* entries of one JSON-LD list

Names == {"a", "b"}            \* schema:name values in the store
ObjNames == {"a"}              \* names given to objects built by hand
Ids == 1..MaxIds
NoId == 0                     \* Python None in the id field
Responses == {"ok", "fail", "fail_applied"}

\* A raw instance: the document the store returns (@id, name, nxv:rev).
NoInstance == [id |-> NoId, name |-> "", rev |-> 0]
NoResource == [name |-> "", rev |-> 0]

\* The resources (by name, in identifier order) the store may hold at start.
InitNames == {<<>>, <<"a">>, <<"b">>, <<"a", "a">>, <<"a", "b">>}

VARIABLES
    objs,       \* heap: sequence of objects, each [name, id, instance]
    cache,      \* KGObject.cache: Ids -> object index, 0 when not a key
    store,      \* remote store: Ids -> [name, rev], rev = 0 when absent
    last,       \* history: what the latest operation did and returned
    returned,   \* history: Ids -> the objects resolution has given out for it
    registry,   \* the class registry: names of the registered classes
    call        \* history: the latest call of a constructor or pure function

vars == <<objs, cache, store, last, returned, registry, call>>

\* ------------------------------------------------- the store (transport)
\* The document the store currently holds for identifier x.
doc(st, x) == [id |-> x, name |-> st[x].name, rev |-> st[x].rev]

RECURSIVE idsNamed(_, _, _)
idsNamed(st, n, x) ==
    IF x > MaxIds THEN <<>>
    ELSE (IF st[x].rev # 0 /\ st[x].name = n THEN <<x>> ELSE <<>>)
         \o idsNamed(st, n, x + 1)

\* client.filter_query(path, {"path": "schema:name", "op": "eq", value}):
\* the documents whose name is n, in store order.
filter_query(st, n) ==
    LET xs == idsNamed(st, n, 1)
    IN  [i \in 1..Len(xs) |-> doc(st, xs[i])]

\* client.instance_from_full_uri(uri)
instance_from_full_uri(st, x) == doc(st, x)

\* The identifier the store allots to the next created resource.
NewId(st) == CHOOSE x \in Ids : st[x].rev = 0 /\ \A y \in 1..(x - 1) : st[y].rev # 0

HasRoom(st) == \E x \in Ids : st[x].rev = 0

\* client.create_new_instance(path, data). resp "ok": stored and returned;
\* "fail": error, nothing stored; "fail_applied": error after the store
\* already took the resource.
create_new_instance(st, n, resp) ==
    LET x == NewId(st)
        st2 == [st EXCEPT ![x] = [name |-> n, rev |-> 1]]
    IN  [ok    |-> resp = "ok",
         store |-> IF resp = "fail" THEN st ELSE st2,
         raw   |-> IF resp = "ok" THEN doc(st2, x) ELSE NoInstance]

\* client.update_instance(instance). A null instance (Python None) can
\* only fail; otherwise as for create, the revision moving on by one.
update_instance(st, inst, n, resp) ==
    IF inst = NoInstance
    THEN [ok |-> FALSE, store |-> st, raw |-> NoInstance]
    ELSE LET x == inst.id
             st2 == [st EXCEPT ![x] = [name |-> n, rev |-> st[x].rev + 1]]
         IN  [ok    |-> resp = "ok",
              store |-> IF resp = "fail" THEN st ELSE st2,
              raw   |-> IF resp = "ok" THEN doc(st2, x) ELSE NoInstance]

\* ------------------------------------------------------------- KGObject
\* ModelProject.__init__ with id=None, instance=None (a transient object).
new_object(n) == [name |-> n, id |-> NoId, instance |-> NoInstance]

\* ModelProject.from_kg_instance (the undecorated construction).
from_kg_instance(inst) == [name |-> inst.name, id |-> inst.id, instance |-> inst]

\* exists looking at the id only, never asking the store.
exists_id_only(ob, st) == [ret |-> ob.id # NoId, id |-> ob.id, matches |-> 0]

\* exists asking the store even when the id is already set.
exists_always_queries(ob, st) ==
    LET response == filter_query(st, ob.name)
    IN  [ret     |-> response # <<>>,
         id      |-> IF response # <<>> THEN response[1].id ELSE ob.id,
         matches |-> Len(response)]

\* exists as it would be if only a unique match counted.
exists_exactly_one(ob, st) ==
    IF ob.id # NoId
    THEN [ret |-> TRUE, id |-> ob.id, matches |-> 0]
    ELSE LET response == filter_query(st, ob.name)
         IN  [ret     |-> Len(response) = 1,
              id      |-> IF Len(response) = 1 THEN response[1].id ELSE ob.id,
              matches |-> Len(response)]

\* KGObject.exists: the value returned and the id the object has afterwards.
exists(ob, st) ==
    IF ob.id # NoId
    THEN [ret |-> TRUE, id |-> ob.id, matches |-> 0]
    ELSE LET response == filter_query(st, ob.name)
         IN  [ret     |-> response # <<>>,
              id      |-> IF response # <<>> THEN response[1].id ELSE ob.id,
              matches |-> Len(response)]

\* _save without its guards: every call creates.
save_branch_always_create(ob, st, exists_ok) == "create"

\* _save treating an object that has an id like one found by exists.
save_branch_id_is_noop(ob, st, exists_ok) ==
    IF ob.id # NoId \/ exists(ob, st).ret
    THEN (IF exists_ok THEN "noop" ELSE "exists_error")
    ELSE "create"

\* _save forgetting the exists_ok flag.
save_branch_ignores_flag(ob, st, exists_ok) ==
    IF ob.id # NoId THEN "update"
    ELSE IF exists(ob, st).ret THEN "noop" ELSE "create"

\* KGObject._save: which of its branches a call takes. The exists call
\* is made only when the id is unset.
save_branch(ob, st, exists_ok) ==
    IF ob.id # NoId THEN "update"
    ELSE IF exists(ob, st).ret
         THEN (IF exists_ok THEN "noop" ELSE "exists_error")
         ELSE "create"

\* _save dropping the object's binding when the update call fails.
after_update_unbinds(ob, r) ==
    IF r.ok THEN [ob EXCEPT !.instance = r.raw]
    ELSE [ob EXCEPT !.id = NoId, !.instance = NoInstance]

\* _save, update branch: self.instance = client.update_instance(self.instance)
after_update(ob, r) == IF r.ok THEN [ob EXCEPT !.instance = r.raw] ELSE ob

\* _save, create branch, keeping the snapshot but not the new id.
after_create_snapshot_only(ob, r) ==
    IF r.ok THEN [ob EXCEPT !.instance = r.raw] ELSE ob

\* _save, create branch: self.id = instance.data["@id"]; self.instance = instance
after_create(ob, r) ==
    IF r.ok THEN [ob EXCEPT !.id = r.raw.id, !.instance = r.raw] ELSE ob

\* _save leaving the created object out of the cache.
cache_after_create_skips(c, o, r) == c

\* _save, create branch: KGObject.cache[self.id] = self
cache_after_create(c, o, r) == IF r.ok THEN [c EXCEPT ![r.raw.id] = o] ELSE c

\* ------------------------------------------------------ identity cache
\* The wrapper running the construction whether or not the id is cached.
wrapper_always_builds(os, c, inst) ==
    LET obj == from_kg_instance(inst)
        os2 == Append(os, obj)
    IN  [objs |-> os2, cache |-> [c EXCEPT ![obj.id] = Len(os2)],
         ret |-> Len(os2), hit |-> c[inst.id] # 0]

\* The wrapper overwriting the cached object's snapshot on a hit.
wrapper_refreshes_hit(os, c, inst) ==
    IF c[inst.id] # 0
    THEN [objs |-> [os EXCEPT ![c[inst.id]].instance = inst], cache |-> c,
          ret |-> c[inst.id], hit |-> TRUE]
    ELSE LET obj == from_kg_instance(inst)
             os2 == Append(os, obj)
         IN  [objs |-> os2, cache |-> [c EXCEPT ![obj.id] = Len(os2)],
              ret |-> Len(os2), hit |-> FALSE]

\* The cache decorator's wrapper around from_kg_instance.
wrapper(os, c, inst) ==
    IF c[inst.id] # 0
    THEN [objs |-> os, cache |-> c, ret |-> c[inst.id], hit |-> TRUE]
    ELSE LET obj == from_kg_instance(inst)
             os2 == Append(os, obj)
         IN  [objs |-> os2, cache |-> [c EXCEPT ![obj.id] = Len(os2)],
              ret |-> Len(os2), hit |-> FALSE]

\* KGObject.from_uri
from_uri(os, c, st, x) == wrapper(os, c, instance_from_full_uri(st, x))

\* KGProxy.resolve loading and rebinding without looking in the cache.
KGProxy_resolve_no_lookup(os, c, st, x) ==
    LET os2 == Append(os, from_kg_instance(instance_from_full_uri(st, x)))
    IN  [objs |-> os2, cache |-> [c EXCEPT ![x] = Len(os2)],
         ret |-> Len(os2), hit |-> FALSE, loads |-> 1]

\* KGProxy.resolve for a proxy whose id is x.
KGProxy_resolve(os, c, st, x) ==
    IF c[x] # 0
    THEN [objs |-> os, cache |-> c, ret |-> c[x], hit |-> TRUE, loads |-> 0]
    ELSE LET r == from_uri(os, c, st, x)
         IN  [objs |-> r.objs, cache |-> [r.cache EXCEPT ![x] = r.ret],
              ret |-> r.ret, hit |-> FALSE, loads |-> 1]

\* KGQuery.resolve: objects = [cls.from_kg_instance(i, client) for i in instances]
RECURSIVE map_instances(_, _, _, _)
map_instances(os, c, insts, i) ==
    IF i > Len(insts) THEN [objs |-> os, cache |-> c, objects |-> <<>>]
    ELSE LET r == wrapper(os, c, insts[i])
             rest == map_instances(r.objs, r.cache, insts, i + 1)
         IN  [objs |-> rest.objs, cache |-> rest.cache,
              objects |-> <<r.ret>> \o rest.objects]

\* KGQuery.resolve: for obj in objects: KGObject.cache[obj.id] = obj
RECURSIVE put_all(_, _, _, _)
put_all(c, os, objects, i) ==
    IF i > Len(objects) THEN c
    ELSE put_all([c EXCEPT ![os[objects[i]].id] = objects[i]], os, objects, i + 1)

\* KGQuery.resolve always answering with the sequence.
KGQuery_resolve_never_collapses(os, c, st, n) ==
    LET instances == filter_query(st, n)
        m == map_instances(os, c, instances, 1)
    IN  [objs |-> m.objs, cache |-> put_all(m.cache, m.objs, m.objects, 1),
         objects |-> m.objects, instances |-> instances, single |-> FALSE]

\* KGQuery.resolve building its results outside the identity cache.
KGQuery_resolve_uncached(os, c, st, n) ==
    LET instances == filter_query(st, n)
        built == [i \in 1..Len(instances) |-> from_kg_instance(instances[i])]
    IN  [objs |-> os \o built, cache |-> c,
         objects |-> [i \in 1..Len(instances) |-> Len(os) + i],
         instances |-> instances, single |-> Len(instances) = 1]

\* KGQuery.resolve for a query filtering on name n.
KGQuery_resolve(os, c, st, n) ==
    LET instances == filter_query(st, n)
        m == map_instances(os, c, instances, 1)
    IN  [objs |-> m.objs, cache |-> put_all(m.cache, m.objs, m.objects, 1),
         objects |-> m.objects, instances |-> instances,
         single |-> Len(instances) = 1]

\* ---------------------------------------------------------- value types
NoIri == ""                   \* an IRI of None or "": falsy in `iri or ...`
iri_map == [l \in {"l1"} |-> "u1"]     \* a subtype's label -> IRI table

\* One JSON-LD entry: {"@id": ..., "label": ...}.
Entry(id, label) == [id |-> id, label |-> label]
Entries == {Entry(NoIri, "l1"), Entry(NoIri, "l2"), Entry("u1", "l1"),
            Entry("u2", "l2")}
NoTerm == [label |-> "", iri |-> NoIri]

\* A raw fragment handed to build_kg_object: None, something that is
\* neither mapping nor sequence, one mapping, a list, or a mapping with
\* the "@list" key (and perhaps further keys).
NullData == [shape |-> "null", items |-> <<>>, extra |-> FALSE]
ScalarData == [shape |-> "scalar", items |-> <<>>, extra |-> FALSE]
DictOf(e) == [shape |-> "dict", items |-> <<e>>, extra |-> FALSE]
ListOf(l) == [shape |-> "list", items |-> l, extra |-> FALSE]
WrapperOf(l, x) == [shape |-> "wrapper", items |-> l, extra |-> x]
EntryLists == UNION {[1..n -> Entries] : n \in 0..MaxLen}
Datas ==
    {NullData, ScalarData} \cup {DictOf(e) : e \in Entries}
        \cup {ListOf(l) : l \in EntryLists}
        \cup {WrapperOf(l, x) : l \in EntryLists, x \in BOOLEAN}

\* The kinds of target class: an OntologyTerm subclass, a KGObject
\* subclass, anything else.
Kinds == {"ontology", "entity", "other"}

\* OntologyTerm.__init__ looking the IRI up whatever it is given.
OntologyTerm_init_always_looks_up(label, iri) ==
    IF label \in DOMAIN iri_map
    THEN [err |-> "", term |-> [label |-> label, iri |-> iri_map[label]],
          lookup |-> TRUE]
    ELSE [err |-> "KeyError", term |-> NoTerm, lookup |-> TRUE]

\* OntologyTerm.__init__: self.iri = iri or self.iri_map[label]
OntologyTerm_init(label, iri) ==
    IF iri # NoIri
    THEN [err |-> "", term |-> [label |-> label, iri |-> iri], lookup |-> FALSE]
    ELSE IF label \in DOMAIN iri_map
         THEN [err |-> "", term |-> [label |-> label, iri |-> iri_map[label]],
               lookup |-> TRUE]
         ELSE [err |-> "KeyError", term |-> NoTerm, lookup |-> TRUE]

\* OntologyTerm.to_jsonld
to_jsonld(term) == [id |-> term.iri, label |-> term.label]

\* OntologyTerm.from_jsonld, for None (isNull) or for the entry e.
from_jsonld(isNull, e) ==
    IF isNull
    THEN [err |-> "", null |-> TRUE, term |-> NoTerm, lookup |-> FALSE]
    ELSE LET t == OntologyTerm_init(e.label, e.id)
         IN  [err |-> t.err, null |-> FALSE, term |-> t.term, lookup |-> t.lookup]

\* build_kg_object, the loop body: one item turned into an object.
build_item(kind, item) ==
    CASE kind = "ontology" ->
            LET t == from_jsonld(FALSE, item)
            IN  [err |-> t.err,
                 obj |-> [tag |-> "term", id |-> t.term.iri, label |-> t.term.label]]
      [] kind = "entity" ->
            [err |-> "", obj |-> [tag |-> "proxy", id |-> item.id, label |-> ""]]
      [] OTHER ->
            [err |-> "ValueError", obj |-> [tag |-> "", id |-> NoIri, label |-> ""]]

\* build_kg_object, the loop: it stops at the first item that raises.
RECURSIVE build_items(_, _, _)
build_items(kind, items, i) ==
    IF i > Len(items) THEN [err |-> "", objects |-> <<>>]
    ELSE LET b == build_item(kind, items[i])
         IN  IF b.err # "" THEN [err |-> b.err, objects |-> <<>>]
             ELSE LET rest == build_items(kind, items, i + 1)
                  IN  [err |-> rest.err,
                       objects |-> IF rest.err # "" THEN <<>>
                                   ELSE <<b.obj>> \o rest.objects]

BuildError(e) == [err |-> e, null |-> FALSE, scalar |-> FALSE, objects |-> <<>>]

\* build_kg_object always answering with the list.
build_kg_object_never_collapses(kind, data) ==
    IF data.shape = "null"
    THEN [err |-> "", null |-> TRUE, scalar |-> FALSE, objects |-> <<>>]
    ELSE IF data.shape = "scalar" THEN BuildError("ValueError")
    ELSE IF data.shape = "wrapper" /\ data.extra THEN BuildError("AssertionError")
    ELSE LET b == build_items(kind, data.items, 1)
         IN  IF b.err # "" THEN BuildError(b.err)
             ELSE [err |-> "", null |-> FALSE, scalar |-> FALSE,
                   objects |-> b.objects]

\* build_kg_object(cls, data) for a class of the given kind: the error
\* raised if any, else None (null), one object (scalar) or the list.
build_kg_object(kind, data) ==
    IF data.shape = "null"
    THEN [err |-> "", null |-> TRUE, scalar |-> FALSE, objects |-> <<>>]
    ELSE IF data.shape = "scalar" THEN BuildError("ValueError")
    ELSE IF data.shape = "wrapper" /\ data.extra THEN BuildError("AssertionError")
    ELSE LET b == build_items(kind, data.items, 1)
         IN  IF b.err # "" THEN BuildError(b.err)
             ELSE [err |-> "", null |-> FALSE, scalar |-> Len(b.objects) = 1,
                   objects |-> b.objects]

\* ------------------------------------------------------- concrete types
\* The classes that define from_kg_instance.
Classes == {"ModelProject", "MEModel", "Morphology", "ModelScript", "EModel"}

\* The kind of each class the factories hand to build_kg_object. The
\* vocabulary classes and Distribution are taken to decode as value types.
KindOf(target) ==
    CASE target \in {"BrainRegion", "Species", "CellType", "AbstractionLevel",
                     "Distribution"} -> "ontology"
      [] target \in {"Organization", "Person", "EModel", "Morphology",
                     "ModelScript"} -> "entity"
      [] OTHER -> "other"

Ref(target, nargs) == [target |-> target, nargs |-> nargs]

\* The build_kg_object calls each from_kg_instance makes, in order, with
\* the number of arguments each call passes.
RefCalls(cls) ==
    CASE cls = "ModelProject" ->
            <<Ref("Organization", 2), Ref("BrainRegion", 2), Ref("Species", 2),
              Ref("CellType", 2), Ref("AbstractionLevel", 2), Ref("Person", 2),
              Ref("Person", 2)>>
      [] cls = "MEModel" ->
            <<Ref("BrainRegion", 2), Ref("Species", 2), Ref("EModel", 2),
              Ref("Morphology", 2), Ref("ModelScript", 2), Ref("isPartOf", 1)>>
      [] cls = "Morphology" -> <<Ref("Distribution", 2)>>
      [] cls = "ModelScript" -> <<Ref("Distribution", 2)>>
      [] cls = "EModel" ->
            <<Ref("BrainRegion", 2), Ref("Species", 2), Ref("ModelScript", 2)>>

\* The fragment a well-formed document holds under a reference key.
WellFormedEntry == Entry("u1", "l1")

\* One build_kg_object call of a factory: a call that leaves out the
\* data argument raises TypeError before build_kg_object runs.
ref_call(rc) ==
    IF rc.nargs # 2 THEN "TypeError"
    ELSE build_kg_object(KindOf(rc.target), DictOf(WellFormedEntry)).err

RECURSIVE first_error(_, _)
first_error(calls, i) ==
    IF i > Len(calls) THEN ""
    ELSE IF ref_call(calls[i]) # "" THEN ref_call(calls[i])
    ELSE first_error(calls, i + 1)

\* cls.from_kg_instance, undecorated: the error it raises on a
\* well-formed document, "" when it builds the object.
construct_error(cls) == first_error(RefCalls(cls), 1)

\* cls.from_kg_instance as decorated by cache.
typed_from_kg_instance(cls, os, c, inst) ==
    IF c[inst.id] = 0 /\ construct_error(cls) # ""
    THEN [objs |-> os, cache |-> c, ret |-> 0, hit |-> FALSE,
          err |-> construct_error(cls)]
    ELSE LET r == wrapper(os, c, inst)
         IN  [objs |-> r.objs, cache |-> r.cache, ret |-> r.ret, hit |-> r.hit,
              err |-> ""]

\* The property names a concrete type declares, and keyword arguments
\* a caller may pass.
property_names == {"name", "alias"}
KwargSeqs == {<<>>, <<"name">>, <<"alias">>, <<"bogus">>, <<"name", "alias">>,
              <<"name", "bogus">>, <<"bogus", "name">>,
              <<"alias", "name", "bogus">>}

\* KGObject.__init__, the loop over **properties.
RECURSIVE set_props(_, _, _)
set_props(keys, i, attrs) ==
    IF i > Len(keys) THEN [err |-> "", attrs |-> attrs]
    ELSE IF keys[i] \notin property_names THEN [err |-> "TypeError", attrs |-> attrs]
    ELSE set_props(keys, i + 1, attrs \cup {keys[i]})

NameOf(attrs) == IF "name" \in attrs THEN "a" ELSE ""

\* KGObject.__init__ setting whatever it is given.
KGObject_init_unchecked(keys) ==
    LET attrs == {keys[i] : i \in 1..Len(keys)}
    IN  [err |-> "", attrs |-> attrs, idAssigned |-> TRUE,
         obj |-> [name |-> NameOf(attrs), id |-> NoId, instance |-> NoInstance]]

\* KGObject.__init__(id=None, instance=None, **properties)
KGObject_init(keys) ==
    LET p == set_props(keys, 1, {})
    IN  [err |-> p.err, attrs |-> p.attrs, idAssigned |-> p.err = "",
         obj |-> [name |-> NameOf(p.attrs), id |-> NoId, instance |-> NoInstance]]

NoCall == [fn |-> "none"]

\* ------------------------------------------------------------- history
NoOp == [op |-> "none", obj |-> 0, x |-> NoId, existsOk |-> FALSE,
         outcome |-> "", creates |-> 0, updates |-> 0, loads |-> 0,
         queries |-> 0, matches |-> 0, preId |-> NoId, first |-> FALSE,
         second |-> FALSE, pairCreates |-> 0, raws |-> <<>>,
         ret |-> <<>>, single |-> FALSE, hit |-> FALSE, paths |-> {},
         again |-> FALSE, other |-> FALSE]

\* A freshly constructed object with no resource of its name in the store.
Fresh(ob, st) ==
    ob.id = NoId /\ ob.instance = NoInstance /\ filter_query(st, ob.name) = <<>>

RECURSIVE note_all(_, _, _, _)
note_all(ret, insts, objects, i) ==
    IF i > Len(insts) THEN ret
    ELSE note_all([ret EXCEPT ![insts[i].id] = @ \cup {objects[i]}],
                  insts, objects, i + 1)

\* The resolution paths that have answered for identifier x in the run
\* of consecutive resolutions of x ending with the operation now made.
paths_for(x, path) ==
    IF last.op \in {"factory", "proxy", "query"} /\ last.x = x
    THEN last.paths \cup {path} ELSE {path}

\* --------------------------------------------------------------- state
InitStores ==
    {[x \in Ids |-> IF x <= Len(ns) THEN [name |-> ns[x], rev |-> 1]
                    ELSE NoResource] : ns \in {n \in InitNames : Len(n) <= MaxIds}}

Init ==
    /\ objs = <<>>
    /\ cache = [x \in Ids |-> 0]
    /\ store \in InitStores
    /\ last = NoOp
    /\ returned = [x \in Ids |-> {}]
    /\ registry = Classes \cup {"KGObject", "ModelInstance"}
    /\ call = NoCall

\* obj = ModelProject(name=n, ...)
Construct(n) ==
    /\ Len(objs) < MaxObjs
    /\ objs' = Append(objs, new_object(n))
    /\ last' = [NoOp EXCEPT !.op = "construct", !.obj = Len(objs) + 1]
    /\ UNCHANGED <<cache, store, returned>>

\* obj.exists(client)
Exists(o) ==
    LET ob == objs[o]
        ex == exists(ob, store)
    IN  /\ objs' = [objs EXCEPT ![o].id = ex.id]
        /\ last' = [NoOp EXCEPT !.op = "exists", !.obj = o,
                       !.outcome = IF ex.ret THEN "true" ELSE "false",
                       !.queries = IF ob.id = NoId THEN 1 ELSE 0,
                       !.matches = ex.matches, !.preId = ob.id]
        /\ UNCHANGED <<cache, store, returned>>

\* obj.save(client, exists_ok): ModelProject.save builds the document
\* from the fields and hands it to KGObject._save.
Save(o, exists_ok) ==
    LET ob == objs[o]
        br == save_branch(ob, store, exists_ok)
        ex == exists(ob, store)
        second == /\ last.op = "save" /\ last.obj = o /\ last.first
                  /\ last.existsOk /\ exists_ok /\ last.outcome = "created"
        other == /\ last.op = "save" /\ last.obj # o /\ last.first
                 /\ last.existsOk /\ exists_ok /\ last.outcome = "created"
                 /\ ob.id = NoId /\ ob.instance = NoInstance
                 /\ ob.name = objs[last.obj].name
        rec == [NoOp EXCEPT !.op = "save", !.obj = o, !.existsOk = exists_ok,
                   !.preId = ob.id, !.first = Fresh(ob, store),
                   !.second = second, !.other = other,
                   !.queries = IF ob.id = NoId THEN 1 ELSE 0,
                   !.matches = ex.matches]
        pair(n) == IF second \/ other THEN last.creates + n ELSE n
    IN  CASE br = "update" ->
             /\ ob.instance # NoInstance => store[ob.id].rev < MaxRev
             /\ \E resp \in Responses :
                  LET r == update_instance(store, ob.instance, ob.name, resp)
                  IN  /\ objs' = [objs EXCEPT ![o] = after_update(ob, r)]
                      /\ store' = r.store
                      /\ last' = [rec EXCEPT !.updates = 1,
                                     !.raws = IF r.ok THEN <<r.raw>> ELSE <<>>,
                                     !.pairCreates = pair(0),
                                     !.outcome = IF r.ok THEN "updated"
                                                 ELSE "transport_error"]
             /\ UNCHANGED <<cache, returned>>
          [] br \in {"noop", "exists_error"} ->
             /\ objs' = [objs EXCEPT ![o].id = ex.id]
             /\ last' = [rec EXCEPT !.outcome = br, !.pairCreates = pair(0)]
             /\ UNCHANGED <<cache, store, returned>>
          [] br = "create" ->
             /\ HasRoom(store)
             /\ \E resp \in Responses :
                  LET r == create_new_instance(store, ob.name, resp)
                  IN  /\ objs' = [objs EXCEPT ![o] = after_create(ob, r)]
                      /\ cache' = cache_after_create(cache, o, r)
                      /\ store' = r.store
                      /\ last' = [rec EXCEPT !.creates = 1,
                                     !.raws = IF r.ok THEN <<r.raw>> ELSE <<>>,
                                     !.pairCreates = pair(1),
                                     !.outcome = IF r.ok THEN "created"
                                                 ELSE "transport_error"]
             /\ UNCHANGED returned

\* ModelProject.from_kg_instance(instance, client) on the document the
\* store holds for x (as KGObject.from_uri obtains it).
FromKgInstance(x) ==
    LET r == from_uri(objs, cache, store, x)
    IN  /\ store[x].rev # 0
        /\ Len(r.objs) <= MaxObjs
        /\ objs' = r.objs
        /\ cache' = r.cache
        /\ returned' = [returned EXCEPT ![x] = @ \cup {r.ret}]
        /\ last' = [NoOp EXCEPT !.op = "factory", !.x = x, !.loads = 1,
                       !.raws = <<doc(store, x)>>, !.ret = <<r.ret>>,
                       !.single = TRUE, !.hit = r.hit,
                       !.paths = paths_for(x, "factory")]
        /\ UNCHANGED store

\* KGProxy(ModelProject, x).resolve(client)
ProxyResolve(x) ==
    LET r == KGProxy_resolve(objs, cache, store, x)
    IN  /\ store[x].rev # 0
        /\ Len(r.objs) <= MaxObjs
        /\ objs' = r.objs
        /\ cache' = r.cache
        /\ returned' = [returned EXCEPT ![x] = @ \cup {r.ret}]
        /\ last' = [NoOp EXCEPT !.op = "proxy", !.x = x, !.loads = r.loads,
                       !.raws = IF r.hit THEN <<>> ELSE <<doc(store, x)>>,
                       !.ret = <<r.ret>>, !.single = TRUE, !.hit = r.hit,
                       !.paths = paths_for(x, "proxy"),
                       !.again = (last.op = "proxy" /\ last.x = x)]
        /\ UNCHANGED store

\* KGQuery(ModelProject, {name = n}, context).resolve(client)
QueryResolve(n) ==
    LET r == KGQuery_resolve(objs, cache, store, n)
        xs == {r.instances[i].id : i \in 1..Len(r.instances)}
        x == IF last.x \in xs THEN last.x
             ELSE IF xs = {} THEN NoId ELSE r.instances[1].id
    IN  /\ Len(r.objs) <= MaxObjs
        /\ objs' = r.objs
        /\ cache' = r.cache
        /\ returned' = note_all(returned, r.instances, r.objects, 1)
        /\ last' = [NoOp EXCEPT !.op = "query", !.x = x, !.queries = 1,
                       !.matches = Len(r.instances), !.ret = r.objects,
                       !.raws = r.instances,
                       !.single = r.single,
                       !.paths = IF x = NoId THEN {} ELSE paths_for(x, "query")]
        /\ UNCHANGED store

Operation ==
    \/ \E n \in ObjNames : Construct(n)
    \/ \E o \in 1..Len(objs) : Exists(o)
    \/ \E o \in 1..Len(objs), e \in BOOLEAN : Save(o, e)
    \/ \E x \in Ids : FromKgInstance(x)
    \/ \E x \in Ids : ProxyResolve(x)
    \/ \E n \in Names : QueryResolve(n)

Next == Operation /\ UNCHANGED <<registry, call>>

Spec == Init /\ [][Next]_vars

\* ------------------------------------- value types and typed factories
EmptyStore == [x \in Ids |-> NoResource]

InitEmpty == Init /\ store = EmptyStore

\* build_kg_object(cls, data)
BuildKgObject(kind, data) ==
    /\ call' = [fn |-> "build", kind |-> kind, data |-> data,
                res |-> build_kg_object(kind, data)]
    /\ UNCHANGED <<objs, cache, store, last, returned, registry>>

\* cls.from_jsonld(data) followed, when it yields a term, by to_jsonld()
FromJsonld(isNull, e) ==
    LET r == from_jsonld(isNull, e)
    IN  /\ call' = [fn |-> "from_jsonld", kind |-> "ontology",
                    data |-> IF isNull THEN NullData ELSE DictOf(e),
                    res |-> r,
                    encoded |-> IF r.err = "" /\ ~r.null
                                THEN <<to_jsonld(r.term)>> ELSE <<>>]
        /\ UNCHANGED <<objs, cache, store, last, returned, registry>>

NextValues ==
    \/ \E k \in Kinds, d \in Datas : BuildKgObject(k, d)
    \/ \E e \in Entries : FromJsonld(FALSE, e)
    \/ \E e \in {WellFormedEntry} : FromJsonld(TRUE, e)

SpecValues == InitEmpty /\ [][NextValues]_vars

\* cls.from_kg_instance(instance, client) on a well-formed document of
\* class cls with @id x.
TypedFactory(cls, x, n) ==
    LET inst == [id |-> x, name |-> n, rev |-> 1]
        r == typed_from_kg_instance(cls, objs, cache, inst)
    IN  /\ Len(r.objs) <= MaxObjs
        /\ objs' = r.objs
        /\ cache' = r.cache
        /\ call' = [fn |-> "factory", cls |-> cls, data |-> inst,
                    miss |-> cache[x] = 0, err |-> r.err, ret |-> r.ret]
        /\ UNCHANGED <<store, last, returned, registry>>

\* KGObject.__init__ called through a concrete type with the keyword
\* arguments keys; the object is kept by the caller when it returns.
BaseInit(keys) ==
    LET r == KGObject_init(keys)
    IN  /\ r.err = "" => Len(objs) < MaxObjs
        /\ objs' = IF r.err = "" THEN Append(objs, r.obj) ELSE objs
        /\ call' = [fn |-> "init", keys |-> keys, err |-> r.err,
                    attrs |-> r.attrs, idAssigned |-> r.idAssigned]
        /\ UNCHANGED <<cache, store, last, returned, registry>>

NextTypes ==
    \/ \E cls \in Classes, x \in Ids, n \in ObjNames : TypedFactory(cls, x, n)
    \/ \E keys \in KwargSeqs : BaseInit(keys)

SpecTypes == InitEmpty /\ [][NextTypes]_vars

\* ------------------------------------------ a project and its references
\* Resources named in RefNames stand for persons and organizations, those
\* named in ObjNames for projects: exists queries under the path of the
\* object's own class, and the two sets of names keep the paths apart.
RefNames == {"b"}

\* The objects a project may refer to: the persons and organizations on
\* the heap.
Others(os, o) == {i \in 1..Len(os) : i # o /\ os[i].name \in RefNames}

\* Values of the authors and owners fields, and of organization (None,
\* one object, or a list of objects).
AuthorSeqs(S) == {<<>>} \cup {<<a>> : a \in S}
OwnerSeqs(S) ==
    {<<>>} \cup {<<a>> : a \in S} \cup {p \in S \X S : p[1] < p[2]}
Orgs(S) ==
    {[list |-> FALSE, items |-> <<>>]}
        \cup {[list |-> l, items |-> <<a>>] : l \in BOOLEAN, a \in S}

\* KGObject._save for the object at o once the branch br is known, ex
\* being what exists answers: heap, cache and store afterwards, whether
\* the call returned normally (ok), and whether the store had room for
\* what was asked of it.
save_by_branch(os, c, st, o, br, ex, resp) ==
    CASE br = "update" ->
         [objs |-> [os EXCEPT ![o] = after_update(os[o],
                        update_instance(st, os[o].instance, os[o].name, resp))],
          cache |-> c,
          store |-> update_instance(st, os[o].instance, os[o].name, resp).store,
          branch |-> br,
          ok |-> update_instance(st, os[o].instance, os[o].name, resp).ok,
          room |-> os[o].instance = NoInstance \/ st[os[o].id].rev < MaxRev]
      [] br \in {"noop", "exists_error"} ->
         [objs |-> [os EXCEPT ![o].id = ex.id], cache |-> c, store |-> st,
          branch |-> br, ok |-> br = "noop", room |-> TRUE]
      [] br = "create" /\ ~HasRoom(st) ->
         [objs |-> os, cache |-> c, store |-> st, branch |-> br,
          ok |-> FALSE, room |-> FALSE]
      [] br = "create" /\ HasRoom(st) ->
         [objs |-> [os EXCEPT ![o] = after_create(os[o],
                        create_new_instance(st, os[o].name, resp))],
          cache |-> cache_after_create(c, o,
                        create_new_instance(st, os[o].name, resp)),
          store |-> create_new_instance(st, os[o].name, resp).store,
          branch |-> br,
          ok |-> create_new_instance(st, os[o].name, resp).ok,
          room |-> TRUE]

\* KGObject._save for the object at o.
KGObject_save(os, c, st, o, exists_ok, resp) ==
    save_by_branch(os, c, st, o, save_branch(os[o], st, exists_ok),
                   exists(os[o], st), resp)

\* ModelProject.save: `if x.id is None: x.save(client)` over the objects
\* refs, in order; an exception from one save (r its result) ends the loop.
RECURSIVE save_unsaved(_, _, _, _, _, _)
RECURSIVE after_ref_save(_, _, _, _)
after_ref_save(r, refs, i, resp) ==
    IF ~r.ok \/ ~r.room
    THEN [objs |-> r.objs, cache |-> r.cache, store |-> r.store,
          ok |-> FALSE, room |-> r.room]
    ELSE save_unsaved(r.objs, r.cache, r.store, refs, i + 1, resp)

save_unsaved(os, c, st, refs, i, resp) ==
    IF i > Len(refs)
    THEN [objs |-> os, cache |-> c, store |-> st, ok |-> TRUE, room |-> TRUE]
    ELSE IF os[refs[i]].id # NoId
    THEN save_unsaved(os, c, st, refs, i + 1, resp)
    ELSE after_ref_save(KGObject_save(os, c, st, refs[i], TRUE, resp),
                        refs, i, resp)

\* The @id values of the references written into the document.
ids_of(os, refs) == [i \in 1..Len(refs) |-> os[refs[i]].id]

\* ModelProject.save, its end: the project's own _save has run (p), after
\* the saves of the references (s2); written holds the references put
\* into the document.
\* sent is the store call _save made for the project, if any.
save_result(s2, p, written) ==
    IF ~s2.ok
    THEN [objs |-> s2.objs, cache |-> s2.cache, store |-> s2.store,
          room |-> s2.room, sent |-> "", err |-> "reference",
          author |-> <<>>, owner |-> <<>>, organization |-> <<>>]
    ELSE [objs |-> p.objs, cache |-> p.cache, store |-> p.store,
          room |-> p.room,
          sent |-> IF p.branch \in {"create", "update"} THEN p.branch ELSE "",
          err |-> IF p.ok THEN "" ELSE "project",
          author |-> written.author, owner |-> written.owner,
          organization |-> written.organization]

\* ModelProject.save from the organization on: one that is not a list is
\* saved if unsaved, one that is a list is written as it is; then _save.
save_from_organization(s2, author, owner, o, org, exists_ok, presp) ==
    save_result(s2,
                KGObject_save(s2.objs, s2.cache, s2.store, o, exists_ok, presp),
                [author |-> author, owner |-> owner,
                 organization |-> ids_of(s2.objs, org.items)])

\* ModelProject.save from the owners on (s1: after the saves of the
\* unsaved owners): their references are written from the ids they have
\* then.
save_from_owners(s1, author, o, owners, org, exists_ok, eresp, presp) ==
    save_from_organization(
        IF s1.ok /\ ~org.list
        THEN save_unsaved(s1.objs, s1.cache, s1.store, org.items, 1, eresp)
        ELSE s1,
        author, ids_of(s1.objs, owners), o, org, exists_ok, presp)

\* ModelProject.save for the project at o, its authors, owners and
\* organization fields holding the given objects. The author references
\* are written first, from the ids as they stand, and no author is saved.
ModelProject_save(os, c, st, o, authors, owners, org, exists_ok, eresp, presp) ==
    save_from_owners(save_unsaved(os, c, st, owners, 1, eresp),
                     ids_of(os, authors), o, owners, org, exists_ok, eresp, presp)

\* How the store answers the saves of the references and the project's
\* own call: at most one of the two goes wrong.
ResponsePairs ==
    {<<"ok", r>> : r \in Responses} \cup {<<r, "ok">> : r \in Responses}

\* project.save(client, exists_ok) with the reference fields as given.
SaveProject(o, authors, owners, org, exists_ok) ==
    \E resps \in ResponsePairs :
        \E r \in {ModelProject_save(objs, cache, store, o, authors, owners, org,
                                   exists_ok, resps[1], resps[2])} :
            /\ r.room
            /\ objs' = r.objs
            /\ cache' = r.cache
            /\ store' = r.store
            /\ call' = [fn |-> "save", obj |-> o, sent |-> r.sent, err |-> r.err,
                        author |-> r.author, owner |-> r.owner,
                        organization |-> r.organization]
            /\ UNCHANGED <<last, returned, registry>>

NextRefs ==
    \/ (\E n \in Names : Construct(n)) /\ UNCHANGED <<registry, call>>
    \/ (\E o \in 1..Len(objs) : Exists(o)) /\ UNCHANGED <<registry, call>>
    \/ \E o \in {i \in 1..Len(objs) : objs[i].name \in ObjNames}, e \in BOOLEAN :
          \E authors \in AuthorSeqs(Others(objs, o)),
             owners \in OwnerSeqs(Others(objs, o)),
             org \in Orgs(Others(objs, o)) :
                SaveProject(o, authors, owners, org, e)

SpecRefs == InitEmpty /\ [][NextRefs]_vars

\* ================================================================ claims
AllPaths == {"factory", "proxy", "query"}
CreatedOk == last.op = "save" /\ last.outcome = "created"

\* C1: for every identifier X, the direct factory, KGProxy.resolve and
\* KGQuery.resolve all hand out one and the same in-memory object,
\* whatever the order of the calls.
C1_OneObjectPerResolvedId == \A x \in Ids : Cardinality(returned[x]) <= 1

\* The three paths have answered for one identifier, one after the other.
C1_Witness ==
    /\ last.x # NoId
    /\ last.paths = AllPaths
    /\ returned[last.x] = {cache[last.x]}

\* C2: no two distinct in-memory objects carry the same non-null id,
\* objects that took their id through exists included.
C2_OneLiveObjectPerId ==
    \A i, j \in 1..Len(objs) :
        (i # j /\ objs[i].id # NoId) => objs[i].id # objs[j].id

\* C3: two successive saves with exists_ok=true on a freshly constructed
\* object (the first returning normally) issue exactly one create call
\* between them.
C3_OneCreateOverTwoSaves == last.second => last.pairCreates = 1

C3_Witness == last.second /\ last.pairCreates = 1 /\ last.creates = 0

\* C4 as stated: the second of two successive saves on a fresh object
\* is a no-op: no create, no update, id, snapshot and cache untouched.
C4_SecondSaveIsNoop ==
    [][last'.second =>
          /\ last'.creates = 0
          /\ last'.updates = 0
          /\ objs'[last'.obj] = objs[last'.obj]
          /\ cache' = cache]_vars

\* C4 as amended: the second save takes the update branch: no create,
\* exactly one update call, id and cache untouched, and the snapshot
\* becomes the raw instance the update returns (unchanged if it fails).
C4_SecondSaveUpdates ==
    [][last'.second =>
          /\ last'.creates = 0
          /\ last'.updates = 1
          /\ objs'[last'.obj].id = objs[last'.obj].id
          /\ cache' = cache
          /\ objs'[last'.obj].instance =
                IF last'.outcome = "updated" THEN last'.raws[1]
                ELSE objs[last'.obj].instance]_vars

C4_Witness ==
    /\ last.second
    /\ last.outcome = "updated"
    /\ objs[last.obj].instance = last.raws[1]
    /\ objs[last.obj].instance.rev = 2

\* C5: save with exists_ok=false on an object with no id, a resource of
\* its name being in the store, raises ResourceExistsError and issues
\* neither a create nor an update call.
C5_ExistsErrorWithoutCreate ==
    (last.op = "save" /\ ~last.existsOk /\ last.preId = NoId /\ last.matches >= 1)
        => /\ last.outcome = "exists_error"
           /\ last.creates = 0
           /\ last.updates = 0

C5_Witness ==
    /\ last.op = "save" /\ ~last.existsOk /\ last.preId = NoId
    /\ last.matches >= 1
    /\ last.outcome = "exists_error"

\* C6 as stated: with the id unset, exists returns true and adopts the
\* match's identifier iff the name query has exactly one match; for no
\* match and for two or more it returns false and leaves the id unset.
C6_TrueIffExactlyOneMatch ==
    (last.op = "exists" /\ last.preId = NoId)
        => /\ (last.outcome = "true") <=> (last.matches = 1)
           /\ (last.outcome = "true") <=> (objs[last.obj].id # NoId)

\* C6 as amended: exists returns true iff the query has at least one
\* match, and then adopts the identifier of the first match; with no
\* match it returns false and leaves the id unset.
C6_TrueIffSomeMatch ==
    (last.op = "exists" /\ last.preId = NoId)
        => /\ (last.outcome = "true") <=> (last.matches >= 1)
           /\ last.matches = Len(filter_query(store, objs[last.obj].name))
           /\ objs[last.obj].id =
                 IF last.matches >= 1
                 THEN filter_query(store, objs[last.obj].name)[1].id
                 ELSE NoId

C6_Witness ==
    /\ last.op = "exists" /\ last.preId = NoId
    /\ last.matches = 2
    /\ last.outcome = "true"
    /\ objs[last.obj].id = 1

\* C7: save on an object with no id for which exists is false issues
\* exactly one create call; once it succeeds the object's id is the
\* identifier the store returned, its snapshot is the returned raw
\* instance, and the cache maps that identifier to this very object.
C7_CreateAdoptsAndCaches ==
    (last.op = "save" /\ last.preId = NoId /\ last.matches = 0)
        => /\ last.creates = 1
           /\ last.updates = 0
           /\ last.outcome = "created" =>
                 /\ Len(last.raws) = 1
                 /\ last.raws[1].id \in Ids
                 /\ objs[last.obj].id = last.raws[1].id
                 /\ objs[last.obj].instance = last.raws[1]
                 /\ cache[last.raws[1].id] = last.obj

C7_Witness ==
    /\ CreatedOk /\ last.preId = NoId /\ last.matches = 0
    /\ cache[objs[last.obj].id] = last.obj

\* C8: when the store's create or update call fails during save, the
\* object's id is what it was before the call and nothing is put into
\* the identity cache.
C8_FailedSaveKeepsId ==
    [][(last'.op = "save" /\ last'.outcome = "transport_error") =>
          /\ objs'[last'.obj].id = objs[last'.obj].id
          /\ objs'[last'.obj].id = last'.preId
          /\ cache' = cache]_vars

\* A create call has failed, and so has an update call on an object that
\* holds a snapshot.
C8_Witness ==
    /\ last.op = "save" /\ last.outcome = "transport_error"
    /\ \/ last.creates = 1 /\ objs[last.obj].id = NoId
       \/ last.updates = 1 /\ objs[last.obj].instance # NoInstance

\* C9 as stated: the object the cache holds for X has as its snapshot
\* the raw instance of the most recent successful fetch or save of X.
C9_CacheReflectsLatest ==
    \A i \in 1..Len(last.raws) :
        cache[last.raws[i].id] # 0 =>
            objs[cache[last.raws[i].id]].instance = last.raws[i]

\* C9 as amended: the cached object for X carries the raw instance of
\* the operation that put X into the cache (the first fetch, or the
\* create); afterwards only a successful update saved through that
\* object replaces it, by the instance the update returned. A later
\* fetch of X leaves both the binding and the snapshot as they were.
C9_SnapshotSetOnInsertAndUpdate ==
    [][\A x \in Ids :
          /\ (cache[x] = 0 /\ cache'[x] # 0) =>
                \E i \in 1..Len(last'.raws) :
                    /\ last'.raws[i].id = x
                    /\ objs'[cache'[x]].instance = last'.raws[i]
          /\ cache[x] # 0 =>
                /\ cache'[x] = cache[x]
                /\ objs'[cache[x]].instance # objs[cache[x]].instance =>
                      /\ last'.op = "save" /\ last'.outcome = "updated"
                      /\ last'.obj = cache[x]
                      /\ objs'[cache[x]].instance = last'.raws[1]]_vars

\* A fetch of X has returned a raw instance newer than the snapshot of
\* the cached object it was answered with.
C9_Witness ==
    /\ last.op \in AllPaths /\ last.hit /\ Len(last.raws) = 1
    /\ cache[last.x] # 0
    /\ objs[cache[last.x]].instance.rev < last.raws[1].rev

\* C10: a cache-wrapped from_kg_instance called with a document whose
\* @id is a key of the cache returns the cached object, builds nothing,
\* and leaves the cached object's fields and the cache as they were.
C10_HitReturnsCachedUnchanged ==
    [][(last'.op = "factory" /\ cache[last'.x] # 0) =>
          /\ last'.hit
          /\ last'.ret = <<cache[last'.x]>>
          /\ objs' = objs
          /\ cache' = cache
          /\ store' = store]_vars

C10_Witness ==
    /\ last.op = "factory" /\ last.hit
    /\ last.ret = <<cache[last.x]>>
    /\ objs[cache[last.x]].id = last.x

\* C12: KGProxy.resolve looks in the identity cache first: on a hit it
\* returns the cached object and calls the store not at all; on a miss
\* it loads by identifier once and caches what it built; a resolve of
\* the same identifier right after returns the same object with no
\* further store call.
C12_ProxyResolveIdempotent ==
    [][last'.op = "proxy" =>
          /\ last'.loads = IF cache[last'.x] # 0 THEN 0 ELSE 1
          /\ last'.queries = 0 /\ last'.creates = 0 /\ last'.updates = 0
          /\ cache[last'.x] # 0 =>
                /\ last'.ret = <<cache[last'.x]>>
                /\ objs' = objs /\ cache' = cache
          /\ cache'[last'.x] = last'.ret[1]
          /\ store' = store
          /\ last'.again => (last'.ret = last.ret /\ last'.loads = 0)]_vars

\* A proxy was resolved, and then the same proxy once more.
C12_Witness ==
    /\ last.op = "proxy" /\ last.again /\ last.hit
    /\ last.loads = 0
    /\ objs[last.ret[1]].instance.rev = store[last.x].rev

\* C13: KGQuery.resolve answers with a single object when the filter
\* matches exactly one record, and otherwise with the sequence of the
\* mapped objects in result order, as long as the number of matches.
C13_QueryCollapsesSingleton ==
    last.op = "query" =>
        /\ last.single <=> (last.matches = 1)
        /\ Len(last.ret) = last.matches
        /\ last.matches = 0
              \/ last.matches = Len(filter_query(store, last.raws[1].name))
        /\ \A i \in 1..Len(last.ret) : objs[last.ret[i]].id = last.raws[i].id

C13_Witness ==
    /\ last.op = "query" /\ last.matches = 2 /\ ~last.single
    /\ Len(last.ret) = 2
    /\ objs[last.ret[1]].id = 1 /\ objs[last.ret[2]].id = 2

\* C14: a KGQuery.resolve call runs the filter query once, keeps nothing
\* under the query itself, and leaves every object it returned in the
\* identity cache under that object's own identifier.
C14_QueryResultsCached ==
    [][last'.op = "query" =>
          /\ last'.queries = 1 /\ last'.loads = 0
          /\ \A i \in 1..Len(last'.ret) :
                cache'[objs'[last'.ret[i]].id] = last'.ret[i]
          /\ \A x \in Ids :
                cache'[x] # cache[x] =>
                    \E i \in 1..Len(last'.raws) : last'.raws[i].id = x
          /\ store' = store]_vars

C14_Witness ==
    /\ last.op = "query" /\ last.queries = 1 /\ last.matches >= 1
    /\ \A i \in 1..Len(last.ret) : cache[objs[last.ret[i]].id] = last.ret[i]

\* C18: an id that is set stays as it is through every exists and save
\* call, whatever their outcome and whatever exists_ok.
C18_IdNeverChanges ==
    [][\A o \in 1..Len(objs) :
          objs[o].id # NoId => objs'[o].id = objs[o].id]_vars

\* A save on an object that had an id has failed, and the id is still there.
C18_Witness ==
    /\ last.op = "save" /\ last.preId # NoId
    /\ last.outcome = "transport_error"
    /\ objs[last.obj].id = last.preId

\* C20: two distinct freshly constructed objects of one name and type,
\* saved with exists_ok=true one after the other (the first returning
\* normally), cause one create call between them: the second save finds
\* the resource through exists and issues neither create nor update.
C20_SecondObjectNotCreated ==
    last.other =>
        /\ last.pairCreates = 1
        /\ last.creates = 0 /\ last.updates = 0
        /\ last.outcome = "noop"
        /\ last.matches >= 1

C20_Witness ==
    /\ last.other /\ last.outcome = "noop"
    /\ objs[last.obj].id # NoId
    /\ \E o \in 1..Len(objs) : o # last.obj /\ objs[o].name = objs[last.obj].name

\* ----------------------------------------- value types: the properties
Proxy(e) == [tag |-> "proxy", id |-> e.id, label |-> ""]
Untouched == objs = <<>> /\ cache = [x \in Ids |-> 0] /\ store = EmptyStore

\* C11: from_kg_instance of every concrete type, given a well-formed
\* document whose @id is not cached, returns a new object with that id
\* and leaves the cache mapping the @id to it.
C11_FactoryBuildsAndCaches ==
    (call.fn = "factory" /\ call.miss) =>
        /\ call.err = ""
        /\ call.ret # 0
        /\ objs[call.ret].id = call.data.id
        /\ cache[call.data.id] = call.ret

\* C15: build_kg_object for an entity type gives None for None, one
\* unresolved proxy for one entry, two proxies for two entries, and for
\* an "@list" wrapper of one entry what it gives for the bare entry;
\* heap, cache and store are as they were.
C15_ReferencesNormalised ==
    (call.fn = "build" /\ call.kind = "entity") =>
        LET d == call.data
            r == call.res
            n == Len(d.items)
        IN  /\ d.shape = "null" => r.err = "" /\ r.null
            /\ d.shape = "dict" =>
                    r.err = "" /\ r.scalar /\ r.objects = <<Proxy(d.items[1])>>
            /\ (d.shape = "list" /\ n = 1) =>
                    r.err = "" /\ r.scalar /\ r.objects = <<Proxy(d.items[1])>>
            /\ (d.shape = "list" /\ n = 2) =>
                    /\ r.err = "" /\ ~r.null /\ ~r.scalar
                    /\ r.objects = <<Proxy(d.items[1]), Proxy(d.items[2])>>
            /\ (d.shape = "wrapper" /\ ~d.extra /\ n = 1) =>
                    r.err = "" /\ r.scalar /\ r.objects = <<Proxy(d.items[1])>>
            /\ Untouched

\* A wrapper of one entry was normalised to the single proxy.
C15_Witness ==
    /\ call.fn = "build" /\ call.kind = "entity"
    /\ call.data = WrapperOf(<<Entry("u1", "l1")>>, FALSE)
    /\ call.res.scalar /\ call.res.objects = <<Proxy(Entry("u1", "l1"))>>

\* C16: build_kg_object raises for every non-None input when the class
\* is neither an OntologyTerm nor a KGObject subclass, and for every
\* class when the input is neither a dict nor a list.
C16_BadClassOrInputRaises ==
    (/\ call.fn = "build"
     /\ \/ call.kind = "other" /\ call.data.shape # "null"
        \/ call.data.shape = "scalar") => call.res.err # ""

\* C17: KGObject.__init__ given a keyword that is not in property_names
\* raises TypeError; no object is kept, the cache and the registry are
\* unchanged, and id and instance are never assigned.
C17_UndeclaredPropertyRejected ==
    [][(call'.fn = "init"
        /\ \E i \in 1..Len(call'.keys) : call'.keys[i] \notin property_names) =>
            /\ call'.err = "TypeError"
            /\ ~call'.idAssigned
            /\ objs' = objs /\ cache' = cache /\ registry' = registry]_vars

\* A construction failed on its second keyword, with objects on the heap.
C17_Witness ==
    /\ call.fn = "init" /\ call.keys = <<"name", "bogus">>
    /\ call.err = "TypeError" /\ call.attrs = {"name"}
    /\ Len(objs) >= 1

\* C19: from_jsonld(None) is None, and for an encoded value with an IRI
\* from_jsonld then to_jsonld gives back the same two fields, iri_map
\* not consulted.
C19_DecodeEncodeRoundTrip ==
    call.fn = "from_jsonld" =>
        /\ call.data.shape = "null" => call.res.err = "" /\ call.res.null
        /\ (call.data.shape = "dict" /\ call.data.items[1].id # NoIri) =>
                /\ call.res.err = "" /\ ~call.res.null
                /\ call.encoded = call.data.items
                /\ ~call.res.lookup

\* A value whose label iri_map does not know was decoded and re-encoded.
C19_Witness ==
    /\ call.fn = "from_jsonld"
    /\ call.data = DictOf(Entry("u2", "l2"))
    /\ call.encoded = <<Entry("u2", "l2")>>

\* ------------------------------------------- save and cache: the rest
\* C21: whenever save takes the update branch the object holds a raw
\* instance (so that the document built from its fields is the one
\* pushed), whatever exists and save calls came before.
C21_UpdateHasSnapshot ==
    [][(last'.op = "save" /\ last'.updates = 1) =>
            objs[last'.obj].instance # NoInstance]_vars

\* C22: every cache entry is stored under the id of its object.
C22_CachedUnderOwnId ==
    \A x \in Ids : cache[x] # 0 => objs[cache[x]].id = x

\* One entry came from a create that has just returned, another from a
\* resolution.
C22_Witness ==
    /\ last.op = "save" /\ last.outcome = "created"
    /\ cache[objs[last.obj].id] = last.obj
    /\ \E y \in Ids : /\ y # objs[last.obj].id
                       /\ cache[y] # 0
                       /\ returned[y] # {}

\* C23: a cache entry, once made, is never removed nor bound to another
\* object.
C23_CacheBindingsStable ==
    [][\A x \in Ids : cache[x] # 0 => cache'[x] = cache[x]]_vars

\* A cached object was updated through save while the cache held an
\* entry for every identifier.
C23_Witness ==
    /\ last.op = "save" /\ last.outcome = "updated"
    /\ cache[objs[last.obj].id] = last.obj
    /\ \A y \in Ids : cache[y] # 0

\* C24: ModelProject.save makes the project's own create or update call
\* only when every owner, author and organization it refers to has an
\* id: no reference written into the document has a null @id.
C24_NoNullReferenceSent ==
    (call.fn = "save" /\ call.sent # "") =>
        /\ \A i \in 1..Len(call.author) : call.author[i] # NoId
        /\ \A i \in 1..Len(call.owner) : call.owner[i] # NoId
        /\ \A i \in 1..Len(call.organization) : call.organization[i] # NoId

====
